---- MODULE Spec2Model ----
(***************************************************************************)
(* Store-location enrichment of data_pipeline.py: the GeocodingService     *)
(* (cache-backed forward and reverse lookups) and the                      *)
(* StoreLocationsProcessor that drives it record by record.                *)
(*                                                                         *)
(* Encoding of Python values.  Every value is a sequence of strings:       *)
(*   a str      is the sequence of its characters, <<"1"," ","A">>;        *)
(*   None       is <<"None">>, NaN (an empty cell) is <<"NaN">>;           *)
(*   a float    is a one-element sequence holding its text, <<"49.2">>.    *)
(* A str never holds a multi-character element, so the encodings are       *)
(* disjoint and "" (the empty str) is <<>>.                                *)
(***************************************************************************)
EXTENDS Integers, Sequences, FiniteSets, TLC

None == <<"None">>
NaN == <<"NaN">>

\* pd.isna / pd.notna on a scalar
isna(v) == v = None \/ v = NaN
notna(v) == ~isna(v)

\* Python truthiness of None, NaN, str and float cells: None and "" are falsy
truthy(v) == v # None /\ v # <<>>

\* the float values of the model
Floats == { <<"49.2">>, <<"-123.1">>, <<"51.0">>, <<"-114.0">>, <<"50.1">>, <<"-97.1">> }

\* isinstance(v, str)
isstr(v) == v \notin {None, NaN} \cup Floats

\* str(v) and f"{v}"
str(v) == IF v = None THEN <<"N","o","n","e">>
          ELSE IF v = NaN THEN <<"n","a","n">> ELSE v

(***************************************************************************)
(* Config                                                                  *)
(***************************************************************************)
\* Config.API_DELAY = 0.2 s, in milliseconds
API_DELAY == 200

\* StoreLocationsProcessor.__init__(..., max_retries: int = 3); the pipeline
\* constructs the processor with the default
max_retries == 3

\* Config.PROVINCE_FULL_NAMES, the entries of the provinces modelled
PROVINCE_FULL_NAMES ==
    [AB |-> <<"A","l","b","e","r","t","a">>,
     BC |-> <<"B","r","i","t","i","s","h"," ","C","o","l","u","m","b","i","a">>]

(***************************************************************************)
(* The remote geocoding service: what one HTTP GET can come back with.     *)
(* A status key that is absent is Missing; has_components tells whether a  *)
(* result carries the address_components key.                              *)
(***************************************************************************)
Missing == <<"Missing">>

PostalA == <<"V","5","K","0","A","1">>
PostalB == <<"T","2","P","1","J","9">>

ResultWithPostal ==
    [location |-> [lat |-> <<"49.2">>, lng |-> <<"-123.1">>],
     has_components |-> TRUE,
     address_components |->
        << [types |-> {"route"}, long_name |-> <<"M">>],
           [types |-> {"postal_code"}, long_name |-> PostalA],
           [types |-> {"postal_code", "political"}, long_name |-> PostalB] >>]

ResultNoPostal ==
    [location |-> [lat |-> <<"51.0">>, lng |-> <<"-114.0">>],
     has_components |-> TRUE,
     address_components |-> << [types |-> {"route"}, long_name |-> <<"M">>] >>]

ResultNoComponents ==
    [location |-> [lat |-> <<"51.0">>, lng |-> <<"-114.0">>],
     has_components |-> FALSE,
     address_components |-> <<>>]

ResultPostalB ==
    [location |-> [lat |-> <<"51.0">>, lng |-> <<"-114.0">>],
     has_components |-> TRUE,
     address_components |->
        << [types |-> {"postal_code"}, long_name |-> PostalB] >>]

\* raises: requests.get or response.json() raised (transport failure, body
\* that is not JSON); otherwise data is the parsed body
Responses ==
    { [raises |-> TRUE,  status |-> Missing, results |-> <<>>],
      [raises |-> FALSE, status |-> Missing, results |-> <<>>],
      [raises |-> FALSE, status |-> <<"ZERO_RESULTS">>, results |-> <<>>],
      [raises |-> FALSE, status |-> <<"OK">>, results |-> <<>>],
      [raises |-> FALSE, status |-> <<"OK">>, results |-> <<ResultWithPostal>>],
      [raises |-> FALSE, status |-> <<"OK">>, results |-> <<ResultNoPostal>>],
      [raises |-> FALSE, status |-> <<"OK">>, results |-> <<ResultNoComponents>>],
      [raises |-> FALSE, status |-> <<"OK">>,
       results |-> <<ResultNoPostal, ResultPostalB>>] }

(***************************************************************************)
(* GeocodingService                                                        *)
(***************************************************************************)
Unresolved == <<None, None, None>>

\* for component in result["address_components"]: if "postal_code" in
\* component["types"]: ... break   -- the first match, None when there is none
RECURSIVE first_postal(_)
first_postal(components) ==
    IF components = <<>> THEN None
    ELSE IF "postal_code" \in Head(components).types
         THEN Head(components).long_name
         ELSE first_postal(Tail(components))

\* the body of the try block of get_coordinates: "exception" when a
\* statement of it raises, "fallthrough" when status is not OK
forward_parse(resp) ==
    IF resp.raises \/ resp.status = Missing THEN [outcome |-> "exception"]
    ELSE IF resp.status # <<"OK">> THEN [outcome |-> "fallthrough"]
    ELSE IF resp.results = <<>> THEN [outcome |-> "exception"]
    ELSE LET result == resp.results[1]
         IN  IF ~result.has_components
             THEN [outcome |-> "exception"]
             ELSE [outcome |-> "ok",
                   value |-> << result.location.lat, result.location.lng,
                                first_postal(result.address_components) >>]

\* get_coordinates without the cache check of line 67
get_coordinates_no_cache_check(c, address, resp) ==
    IF ~truthy(address) \/ ~isstr(address)
    THEN [ret |-> Unresolved, cache |-> c, net |-> FALSE, raised |-> FALSE]
    ELSE LET p == forward_parse(resp)
         IN  IF p.outcome = "ok"
             THEN [ret |-> p.value,
                   cache |-> [a \in DOMAIN c \cup {address} |->
                                 IF a = address THEN p.value ELSE c[a]],
                   net |-> TRUE, raised |-> FALSE]
             ELSE [ret |-> Unresolved, cache |-> c, net |-> TRUE,
                   raised |-> FALSE]

\* get_coordinates that stores the all-None triple of a failed lookup too
get_coordinates_caches_failures(c, address, resp) ==
    IF ~truthy(address) \/ ~isstr(address)
    THEN [ret |-> Unresolved, cache |-> c, net |-> FALSE, raised |-> FALSE]
    ELSE IF address \in DOMAIN c
    THEN [ret |-> c[address], cache |-> c, net |-> FALSE, raised |-> FALSE]
    ELSE LET p == forward_parse(resp)
             v == IF p.outcome = "ok" THEN p.value ELSE Unresolved
         IN  [ret |-> v,
              cache |-> [a \in DOMAIN c \cup {address} |->
                            IF a = address THEN v ELSE c[a]],
              net |-> TRUE, raised |-> FALSE]

\* get_coordinates that keeps the latest resolution only
get_coordinates_single_entry(c, address, resp) ==
    IF ~truthy(address) \/ ~isstr(address)
    THEN [ret |-> Unresolved, cache |-> c, net |-> FALSE, raised |-> FALSE]
    ELSE IF address \in DOMAIN c
    THEN [ret |-> c[address], cache |-> c, net |-> FALSE, raised |-> FALSE]
    ELSE LET p == forward_parse(resp)
         IN  IF p.outcome = "ok"
             THEN [ret |-> p.value, cache |-> [a \in {address} |-> p.value],
                   net |-> TRUE, raised |-> FALSE]
             ELSE [ret |-> Unresolved, cache |-> c, net |-> TRUE,
                   raised |-> FALSE]

\* get_coordinates without the try/except around the request
get_coordinates_unguarded(c, address, resp) ==
    IF ~truthy(address) \/ ~isstr(address)
    THEN [ret |-> Unresolved, cache |-> c, net |-> FALSE, raised |-> FALSE]
    ELSE IF address \in DOMAIN c
    THEN [ret |-> c[address], cache |-> c, net |-> FALSE, raised |-> FALSE]
    ELSE LET p == forward_parse(resp)
         IN  IF p.outcome = "ok"
             THEN [ret |-> p.value,
                   cache |-> [a \in DOMAIN c \cup {address} |->
                                 IF a = address THEN p.value ELSE c[a]],
                   net |-> TRUE, raised |-> FALSE]
             ELSE [ret |-> Unresolved, cache |-> c, net |-> TRUE,
                   raised |-> p.outcome = "exception"]

\* get_coordinates(address) on cache c when the service would answer resp.
\* ret: the returned triple; cache: self.cache afterwards; net: a request
\* was sent; raised: an exception left the method
get_coordinates(c, address, resp) ==
    IF ~truthy(address) \/ ~isstr(address)
    THEN [ret |-> Unresolved, cache |-> c, net |-> FALSE, raised |-> FALSE]
    ELSE IF address \in DOMAIN c
    THEN [ret |-> c[address], cache |-> c, net |-> FALSE, raised |-> FALSE]
    ELSE LET p == forward_parse(resp)
         IN  IF p.outcome = "ok"
             THEN [ret |-> p.value,
                   cache |-> [a \in DOMAIN c \cup {address} |->
                                 IF a = address THEN p.value ELSE c[a]],
                   net |-> TRUE, raised |-> FALSE]
             ELSE [ret |-> Unresolved, cache |-> c, net |-> TRUE,
                   raised |-> FALSE]

\* the nested loops of get_postal_from_coords over data["results"]:
\* "exception" when a result has no address_components
RECURSIVE reverse_scan(_)
reverse_scan(results) ==
    IF results = <<>> THEN [outcome |-> "fallthrough"]
    ELSE IF ~Head(results).has_components
         THEN [outcome |-> "exception"]
         ELSE LET pc == first_postal(Head(results).address_components)
              IN  IF \E i \in 1..Len(Head(results).address_components) :
                        "postal_code" \in Head(results).address_components[i].types
                  THEN [outcome |-> "ok", value |-> pc]
                  ELSE reverse_scan(Tail(results))

\* the body of the try block of get_postal_from_coords
reverse_parse(resp) ==
    IF resp.raises \/ resp.status = Missing THEN [outcome |-> "exception"]
    ELSE IF resp.status # <<"OK">> THEN [outcome |-> "fallthrough"]
    ELSE reverse_scan(resp.results)

\* get_postal_from_coords(lat, lng) when the service would answer resp
get_postal_from_coords(la, ln, resp) ==
    LET p == reverse_parse(resp)
    IN  IF p.outcome = "ok"
        THEN [ret |-> p.value, net |-> TRUE, raised |-> FALSE]
        ELSE [ret |-> None, net |-> TRUE, raised |-> FALSE]

(***************************************************************************)
(* DataCleaner.clean_bc_address: Python's re on character sequences.       *)
(* A pattern is a sequence of items: lit (a literal, compared without case *)
(* under re.IGNORECASE), class (one character of a set), ws (\s*, greedy), *)
(* optws (\s?) and optcomma (,?).                                          *)
(***************************************************************************)
UpperSeq == <<"A","B","C","D","E","F","G","H","I","J","K","L","M",
              "N","O","P","Q","R","S","T","U","V","W","X","Y","Z">>
LowerSeq == <<"a","b","c","d","e","f","g","h","i","j","k","l","m",
              "n","o","p","q","r","s","t","u","v","w","x","y","z">>
Letters == {UpperSeq[i] : i \in 1..26} \cup {LowerSeq[i] : i \in 1..26}
Digits == {"0","1","2","3","4","5","6","7","8","9"}
Whitespace == {" ", "\t", "\n"}

lower(ch) == IF \E i \in 1..26 : UpperSeq[i] = ch
             THEN LowerSeq[CHOOSE i \in 1..26 : UpperSeq[i] = ch]
             ELSE ch

Max(S) == CHOOSE m \in S : \A n \in S : n <= m
Min(S) == CHOOSE m \in S : \A n \in S : m <= n

\* the number of whitespace characters of s from position i on
RECURSIVE ws_run(_, _)
ws_run(s, i) == IF i <= Len(s) /\ s[i] \in Whitespace THEN 1 + ws_run(s, i + 1) ELSE 0

\* the position after the match of pat that starts at position i of s, as
\* the backtracking matcher finds it (greedy items take the most they can);
\* 0 when pat does not match at i
RECURSIVE match_at(_, _, _, _)
match_at(pat, s, i, ignorecase) ==
    IF pat = <<>> THEN i
    ELSE LET h == Head(pat)
             rest == Tail(pat)
             eq(a, b) == IF ignorecase THEN lower(a) = lower(b) ELSE a = b
         IN  CASE h.k = "lit" ->
                    IF i + Len(h.s) - 1 <= Len(s)
                       /\ \A j \in 1..Len(h.s) : eq(s[i + j - 1], h.s[j])
                    THEN match_at(rest, s, i + Len(h.s), ignorecase) ELSE 0
               [] h.k = "class" ->
                    IF i <= Len(s) /\ s[i] \in h.set
                    THEN match_at(rest, s, i + 1, ignorecase) ELSE 0
               [] h.k = "ws" ->
                    LET good == {k \in 0..ws_run(s, i) :
                                    match_at(rest, s, i + k, ignorecase) # 0}
                    IN  IF good = {} THEN 0
                        ELSE match_at(rest, s, i + Max(good), ignorecase)
               [] h.k = "optws" ->
                    IF i <= Len(s) /\ s[i] \in Whitespace
                       /\ match_at(rest, s, i + 1, ignorecase) # 0
                    THEN match_at(rest, s, i + 1, ignorecase)
                    ELSE match_at(rest, s, i, ignorecase)
               [] h.k = "optcomma" ->
                    IF i <= Len(s) /\ s[i] = ","
                       /\ match_at(rest, s, i + 1, ignorecase) # 0
                    THEN match_at(rest, s, i + 1, ignorecase)
                    ELSE match_at(rest, s, i, ignorecase)

lit(s) == [k |-> "lit", s |-> s]
class(set) == [k |-> "class", set |-> set]

\* re.search(pat, s).group(0), None when nothing matches
re_search(pat, s) ==
    LET starts == {i \in 1..Len(s) : match_at(pat, s, i, FALSE) # 0}
    IN  IF starts = {} THEN None
        ELSE SubSeq(s, Min(starts), match_at(pat, s, Min(starts), FALSE) - 1)

\* re.sub(pat, "", s, flags=re.IGNORECASE) from position i on, for a pattern
\* that matches no empty string
RECURSIVE re_sub(_, _, _)
re_sub(pat, s, i) ==
    IF i > Len(s) THEN <<>>
    ELSE LET e == match_at(pat, s, i, TRUE)
         IN  IF e # 0 THEN re_sub(pat, s, e)
             ELSE <<s[i]>> \o re_sub(pat, s, i + 1)

\* str.strip()
strip(s) ==
    LET keep == {i \in 1..Len(s) : s[i] \notin Whitespace}
    IN  IF keep = {} THEN <<>> ELSE SubSeq(s, Min(keep), Max(keep))

\* r"[A-Za-z]\d[A-Za-z]\s?\d[A-Za-z]\d"
postal_pattern ==
    << class(Letters), class(Digits), class(Letters), [k |-> "optws"],
       class(Digits), class(Letters), class(Digits) >>

\* rf",\s*{re.escape(str(city))}\s*,?\s*{str(province)}\s*{postal or ''}"
remove_pattern(city, province, postal_code) ==
    << lit(<<",">>), [k |-> "ws"], lit(str(city)), [k |-> "ws"],
       [k |-> "optcomma"], [k |-> "ws"], lit(str(province)), [k |-> "ws"],
       lit(IF truthy(postal_code) THEN str(postal_code) ELSE <<>>) >>

\* clean_bc_address that returns the cleaned text as re.sub leaves it
clean_bc_address_no_strip(full_address, city, province) ==
    IF ~isstr(full_address) THEN <<full_address, None>>
    ELSE LET postal_code == re_search(postal_pattern, full_address)
         IN  << re_sub(remove_pattern(city, province, postal_code),
                       full_address, 1),
                postal_code >>

\* clean_bc_address(full_address, city, province) -> <<cleaned, postal_code>>
clean_bc_address(full_address, city, province) ==
    IF ~isstr(full_address) THEN <<full_address, None>>
    ELSE LET postal_code == re_search(postal_pattern, full_address)
         IN  << strip(re_sub(remove_pattern(city, province, postal_code),
                             full_address, 1)),
                postal_code >>

(***************************************************************************)
(* StoreLocationsProcessor: the input files                                *)
(***************************************************************************)
\* the most rows the files of one run hold together
MaxRecords == 2

\* province_configs of process_all_provinces, its first entries: the Alberta
\* workbook filtered to AB and to BC, and the British Columbia file, whose
\* mapping keeps the combined FullAddress column
province_configs ==
    << [file_name |-> "Alberta.xls", province_code |-> "AB", FullAddress |-> FALSE],
       [file_name |-> "Alberta.xls", province_code |-> "BC", FullAddress |-> FALSE],
       [file_name |-> "BritishColumbia.csv", province_code |-> "BC", FullAddress |-> TRUE] >>

Addr1A == <<"1"," ","A">>
CityYk == <<"Y","k">>
FullAddr1A == Addr1A \o <<",", " ">> \o CityYk \o <<",", " ">>
              \o PROVINCE_FULL_NAMES.BC \o <<" ">> \o PostalA

\* the optional columns a file may carry besides those its mapping names
ColumnSets(config) ==
    IF config.FullAddress
    THEN { {}, {"PostalCode"}, {"Latitude", "Longitude"} }
    ELSE { {"Address", "PostalCode"} }

\* the rows of a file with the columns cols, after the province filter, the
\* renaming and the initialisation of the missing geocoding columns
\* (a column that is missing is None in every row, an empty cell is NaN)
Rows(config, cols) ==
    [ Province : {config.province_code},
      FullProvinceName : {PROVINCE_FULL_NAMES[config.province_code]},
      City : {CityYk},
      Address : IF "Address" \in cols THEN {Addr1A} ELSE {None},
      FullAddress : IF config.FullAddress THEN {FullAddr1A, Addr1A} ELSE {None},
      PostalCode : IF "PostalCode" \in cols THEN {NaN, PostalB} ELSE {None},
      Latitude : IF "Latitude" \in cols THEN {<<"50.1">>} ELSE {None},
      Longitude : IF "Longitude" \in cols THEN {<<"-97.1">>} ELSE {None} ]

SeqsUpTo(S, n) == UNION { [1..k -> S] : k \in 0..n }

\* the row with the place it was read from, <<index of the config, row of
\* the frame>>, which the row keeps for the whole run
with_origin(row, o) ==
    [f \in DOMAIN row \cup {"origin"} |-> IF f = "origin" THEN o ELSE row[f]]

RECURSIVE Flatten(_)
\* the frames joined last frame first
RECURSIVE Flatten_reversed(_)
Flatten_reversed(frames) ==
    IF frames = <<>> THEN <<>> ELSE Flatten_reversed(Tail(frames)) \o Head(frames)

Flatten(frames) == IF frames = <<>> THEN <<>> ELSE Head(frames) \o Flatten(Tail(frames))

\* df[[c for c in target_cols if c in df.columns]]
target_cols(row) ==
    [ City |-> row.City, Province |-> row.Province,
      FullProvinceName |-> row.FullProvinceName, Address |-> row.Address,
      PostalCode |-> row.PostalCode, Latitude |-> row.Latitude,
      Longitude |-> row.Longitude, origin |-> row.origin ]

(***************************************************************************)
(* State                                                                   *)
(***************************************************************************)
VARIABLES
    cache,        \* GeocodingService.cache: query -> <<lat, lng, postal_code>>
    pc,           \* where process_all_provinces stands
    ci,           \* index of the config being processed
    df,           \* the frame of the province being processed
    idx,          \* the row of df being processed
    attempt,      \* the attempt of the retry loop
    api_query,    \* locals of the row loop
    lat, lng, postal,
    dfs,          \* the frames of the provinces processed so far
    master_df,    \* the combined frame
    todo,         \* master_df[missing_postal].index still to visit
    \* history variables
    waited,       \* milliseconds slept since the last call of the service
    gap,          \* waited when the last call was made, -1 for the first call
    last,         \* the last call of the service
    returned,     \* query -> what the last forward call with it returned
    tries,        \* outcomes of the attempts of the retry loop of the row
    outcomes,     \* "Resolved" or "Exhausted" for every finished row, in order
    n_read,       \* the number of rows read from the files
    master0,      \* master_df as combined, before the reverse pass
    rev_calls,    \* reverse calls made for each row of master_df
    aborted,      \* configs whose processing an exception ended
    lost,         \* the number of rows read for those configs
    entered,      \* <<Latitude, Longitude>> of the current row as it was read
    \* fixed for a run
    configs,      \* the list process_all_provinces goes through
    cleaner       \* a call of clean_bc_address made on its own

prog == <<cache, pc, ci, df, idx, attempt, api_query, lat, lng, postal, dfs,
          master_df, todo>>
hist == <<waited, gap, last, returned, tries, outcomes, n_read, master0,
          rev_calls, aborted, lost, entered>>
fixed == <<configs, cleaner>>
vars == <<prog, hist, fixed>>

NoCall == [op |-> "none"]

NotCleaning ==
    [run |-> "none", full_address |-> <<>>, city |-> <<>>, province |-> <<>>,
     out |-> <<>>]

\* the state after CannabisDataPipeline.__init__ and the construction of the
\* processor, about to go through the list cfgs from position p
Start(cfgs, p) ==
    /\ cache = <<>>
    /\ pc = p
    /\ ci = 1
    /\ df = <<>>
    /\ idx = 0
    /\ attempt = 0
    /\ api_query = <<>>
    /\ lat = None /\ lng = None /\ postal = None
    /\ dfs = <<>>
    /\ master_df = <<>>
    /\ todo = <<>>
    /\ waited = 0
    /\ gap = -1
    /\ last = NoCall
    /\ returned = <<>>
    /\ tries = <<>>
    /\ outcomes = <<>>
    /\ n_read = 0
    /\ master0 = <<>>
    /\ rev_calls = <<>>
    /\ aborted = {}
    /\ lost = 0
    /\ entered = <<None, None>>
    /\ configs = cfgs

Init == Start(province_configs, "config") /\ cleaner = NotCleaning

\* every record of the run in processing order, wherever it is held
Records == IF pc \in {"reverse", "done"} THEN master_df ELSE Flatten(dfs) \o df

(***************************************************************************)
(* StoreLocationsProcessor.process_province                                *)
(***************************************************************************)
config == configs[ci]

\* the province code is a key of Config.PROVINCE_FULL_NAMES
known_province(code) == code \in DOMAIN PROVINCE_FULL_NAMES

\* without the try of the loop the error ends process_all_provinces
after_exception_propagates == "crashed"

\* except Exception in the loop of process_all_provinces: the error is
\* printed and the loop goes on with the next config
after_exception == "config"

\* time.sleep(Config.API_DELAY * 2) after a failed attempt
retry_backoff == API_DELAY * 2
\* the sleep at the end of a row left out
row_delay_left_out == API_DELAY - API_DELAY
\* time.sleep(Config.API_DELAY) at the end of a row
row_delay == API_DELAY
\* time.sleep(Config.API_DELAY) after a reverse lookup
reverse_delay == API_DELAY

\* the file cannot be read, or its format is unsupported: return None
ReadFails ==
    /\ pc = "config"
    /\ ci <= Len(configs)
    /\ ci' = ci + 1
    /\ UNCHANGED <<cache, pc, df, idx, attempt, api_query, lat, lng, postal,
                   dfs, master_df, todo, waited, gap, last, returned, tries,
                   outcomes, n_read, master0, rev_calls, aborted, lost, entered,
                   fixed>>

\* the file is read, filtered, renamed and given its province and geocoding
\* columns; a frame without rows is returned at once and not kept.  A
\* province code that Config.PROVINCE_FULL_NAMES does not hold raises
\* KeyError at line 186, after the file was read and before any row is
\* processed
ReadProvince ==
    /\ pc = "config"
    /\ ci <= Len(configs)
    /\ IF known_province(config.province_code)
       THEN /\ \E cols \in ColumnSets(config) :
               \E rows \in SeqsUpTo(Rows(config, cols), MaxRecords - n_read) :
                  /\ n_read' = n_read + Len(rows)
                  /\ IF rows = <<>>
                     THEN /\ ci' = ci + 1
                          /\ UNCHANGED <<pc, df, idx>>
                     ELSE /\ df' = [k \in 1..Len(rows) |->
                                       with_origin(rows[k], <<ci, k>>)]
                          /\ idx' = 1
                          /\ pc' = "row"
                          /\ UNCHANGED ci
            /\ UNCHANGED <<aborted, lost>>
       ELSE /\ \E k \in 0..(MaxRecords - n_read) :
                  /\ n_read' = n_read + k
                  /\ lost' = lost + k
            /\ aborted' = aborted \cup {ci}
            /\ ci' = ci + 1
            /\ pc' = after_exception
            /\ UNCHANGED <<df, idx>>
    /\ UNCHANGED <<cache, attempt, api_query, lat, lng, postal, dfs, master_df,
                   todo, waited, gap, last, returned, tries, outcomes, master0,
                   rev_calls, entered, fixed>>

\* lines 195-205: the address of the row and, for the British Columbia
\* file, its cleanup.  <<row as written back to df, current_addr>>
bc_handling(row, province_code, has_full_address) ==
    IF province_code = "BC" /\ has_full_address
    THEN LET cleaned == clean_bc_address(row.FullAddress, row.City,
                                         PROVINCE_FULL_NAMES.BC)
             r1 == [row EXCEPT !.Address = cleaned[1]]
             r2 == IF ~truthy(row.PostalCode)
                   THEN [r1 EXCEPT !.PostalCode = cleaned[2]] ELSE r1
         IN  <<r2, cleaned[1]>>
    ELSE <<row, IF truthy(row.Address) THEN str(row.Address) ELSE <<>> >>

\* f"{current_addr}, {city}, {full_prov}, Canada"
build_query(current_addr, row) ==
    str(current_addr) \o <<",", " ">> \o str(row.City) \o <<",", " ">>
    \o str(row.FullProvinceName) \o <<",", " ", "C","a","n","a","d","a">>

\* the start of an iteration of the row loop, up to the retry loop
BeginRow ==
    /\ pc = "row"
    /\ LET h == bc_handling(df[idx], config.province_code, config.FullAddress)
       IN  /\ df' = [df EXCEPT ![idx] = h[1]]
           /\ api_query' = build_query(h[2], df[idx])
    /\ lat' = None /\ lng' = None /\ postal' = None
    /\ attempt' = 1
    /\ tries' = <<>>
    /\ entered' = <<df[idx].Latitude, df[idx].Longitude>>
    /\ pc' = IF max_retries >= 1 THEN "attempt" ELSE "write"
    /\ UNCHANGED <<cache, ci, idx, dfs, master_df, todo, waited, gap, last,
                   returned, outcomes, n_read, master0, rev_calls, aborted,
                   lost, fixed>>

\* the retry loop stops when both coordinates came back
resolved(la, ln) == la # None /\ ln # None

\* a retry loop that runs once more than max_retries
retry_continues_off_by_one(n) == n <= max_retries

\* for attempt in range(1, self.max_retries + 1): another iteration follows
\* the iteration attempt
retry_continues(n) == n < max_retries

\* one iteration of the retry loop: the call and, when it failed, the backoff
ForwardAttempt ==
    /\ pc = "attempt"
    /\ \E resp \in Responses :
         LET r == get_coordinates(cache, api_query, resp)
         IN  /\ cache' = r.cache
             /\ last' = [op |-> "forward", query |-> api_query, ret |-> r.ret,
                         net |-> r.net,
                         answer |-> forward_parse(resp).outcome,
                         raised |-> r.raised,
                         origin |-> df[idx].origin,
                         prev |-> IF api_query \in DOMAIN returned
                                  THEN returned[api_query] ELSE <<>>]
             /\ returned' = [a \in DOMAIN returned \cup {api_query} |->
                               IF a = api_query THEN r.ret ELSE returned[a]]
             /\ gap' = IF last = NoCall THEN -1 ELSE waited
             /\ IF r.raised
                THEN \* the exception leaves process_province and is caught
                     \* by process_all_provinces, which goes to the next config
                     /\ aborted' = aborted \cup {ci}
                     /\ lost' = lost + Len(df)
                     /\ ci' = ci + 1
                     /\ pc' = after_exception
                     /\ waited' = 0
                     /\ UNCHANGED <<lat, lng, postal, attempt, tries>>
                ELSE /\ lat' = r.ret[1] /\ lng' = r.ret[2] /\ postal' = r.ret[3]
                     /\ tries' = Append(tries, resolved(r.ret[1], r.ret[2]))
                     /\ IF resolved(r.ret[1], r.ret[2])
                        THEN /\ pc' = "write"
                             /\ waited' = 0
                             /\ UNCHANGED attempt
                        ELSE /\ waited' = retry_backoff
                             /\ attempt' = attempt + 1
                             /\ pc' = IF retry_continues(attempt)
                                      THEN "attempt" ELSE "write"
                     /\ UNCHANGED <<aborted, lost, ci>>
    /\ UNCHANGED <<df, idx, api_query, dfs, master_df, todo, outcomes, n_read,
                   master0, rev_calls, entered, fixed>>

\* write_row that stores the coordinates only when the lookup gave some
write_row_keeps_source(row, la, ln, po) ==
    LET r1 == IF la # None /\ ln # None
              THEN [row EXCEPT !.Latitude = la, !.Longitude = ln] ELSE row
    IN  IF isna(r1.PostalCode) /\ truthy(po)
        THEN [r1 EXCEPT !.PostalCode = po] ELSE r1

\* write_row that stores the postal code of the lookup whenever it gave one
write_row_overwrites_postal(row, la, ln, po) ==
    LET r1 == [row EXCEPT !.Latitude = la, !.Longitude = ln]
    IN  IF truthy(po) THEN [r1 EXCEPT !.PostalCode = po] ELSE r1

\* write_row that stores the latitude and leaves the longitude
write_row_latitude_only(row, la, ln, po) ==
    LET r1 == [row EXCEPT !.Latitude = la]
    IN  IF isna(r1.PostalCode) /\ truthy(po)
        THEN [r1 EXCEPT !.PostalCode = po] ELSE r1

\* write_row that stores the coordinates in a row that had none
write_row_fills_missing_only(row, la, ln, po) ==
    LET r1 == IF isna(row.Latitude) \/ isna(row.Longitude)
              THEN [row EXCEPT !.Latitude = la, !.Longitude = ln] ELSE row
    IN  IF isna(r1.PostalCode) /\ truthy(po)
        THEN [r1 EXCEPT !.PostalCode = po] ELSE r1

\* lines 222-225: the row as the end of the iteration leaves it
write_row(row, la, ln, po) ==
    LET r1 == [row EXCEPT !.Latitude = la, !.Longitude = ln]
    IN  IF isna(r1.PostalCode) /\ truthy(po)
        THEN [r1 EXCEPT !.PostalCode = po] ELSE r1

\* the end of an iteration of the row loop and, after the last row, the
\* return of the frame, which process_all_provinces keeps when it has rows
FinishRow ==
    /\ pc = "write"
    /\ LET done == [df EXCEPT ![idx] = write_row(df[idx], lat, lng, postal)]
       IN  IF idx < Len(df)
           THEN /\ df' = done
                /\ idx' = idx + 1
                /\ pc' = "row"
                /\ UNCHANGED <<dfs, ci>>
           ELSE /\ dfs' = Append(dfs, [i \in 1..Len(done) |-> target_cols(done[i])])
                /\ df' = <<>>
                /\ idx' = 0
                /\ ci' = ci + 1
                /\ pc' = "config"
    /\ waited' = waited + row_delay
    /\ outcomes' = Append(outcomes, IF tries # <<>> /\ tries[Len(tries)]
                                    THEN "Resolved" ELSE "Exhausted")
    /\ UNCHANGED <<cache, attempt, api_query, lat, lng, postal, master_df, todo,
                   gap, last, returned, tries, n_read, master0, rev_calls,
                   aborted, lost, entered, fixed>>

(***************************************************************************)
(* StoreLocationsProcessor.process_all_provinces                           *)
(***************************************************************************)
\* the loop that would go on to the reverse pass as soon as a frame is kept
loop_ended_at_first_frame == dfs # <<>>

\* the loop over province_configs has gone through every config
loop_ended == ci > Len(configs)

\* no frame was kept: raise ValueError
RaiseNoData ==
    /\ pc = "config"
    /\ loop_ended
    /\ dfs = <<>>
    /\ pc' = "error"
    /\ UNCHANGED <<cache, ci, df, idx, attempt, api_query, lat, lng, postal,
                   dfs, master_df, todo, hist, fixed>>

\* the reverse pass over every row
missing_postal_every_row(frame) == 1..Len(frame)

\* master_df[missing_postal].index
missing_postal(frame) == {i \in 1..Len(frame) : isna(frame[i].PostalCode)}

RECURSIVE Ascending(_)
Ascending(S) == IF S = {} THEN <<>> ELSE <<Min(S)>> \o Ascending(S \ {Min(S)})

\* pd.concat(dfs, ignore_index=True) and the selection of the rows whose
\* postal code is missing
Combine ==
    /\ pc = "config"
    /\ loop_ended
    /\ dfs # <<>>
    /\ master_df' = Flatten(dfs)
    /\ master0' = Flatten(dfs)
    /\ todo' = Ascending(missing_postal(Flatten(dfs)))
    /\ rev_calls' = [i \in 1..Len(Flatten(dfs)) |-> 0]
    /\ pc' = "reverse"
    /\ UNCHANGED <<cache, ci, df, idx, attempt, api_query, lat, lng, postal,
                   dfs, waited, gap, last, returned, tries, outcomes, n_read,
                   aborted, lost, entered, fixed>>

\* the reverse pass asks for the rows that have both coordinates
wants_reverse(row) == notna(row.Latitude) /\ notna(row.Longitude)

\* an iteration of the reverse pass on a row with coordinates
ReverseLookup ==
    /\ pc = "reverse"
    /\ todo # <<>>
    /\ wants_reverse(master_df[Head(todo)])
    /\ \E resp \in Responses :
         LET i == Head(todo)
             r == get_postal_from_coords(master_df[i].Latitude,
                                         master_df[i].Longitude, resp)
         IN  /\ last' = [op |-> "reverse",
                         query |-> <<master_df[i].Latitude, master_df[i].Longitude>>,
                         ret |-> <<r.ret>>, net |-> r.net,
                         answer |-> reverse_parse(resp).outcome,
                         raised |-> r.raised,
                         origin |-> master_df[i].origin,
                         prev |-> <<>>]
             /\ gap' = IF last = NoCall THEN -1 ELSE waited
             /\ rev_calls' = [rev_calls EXCEPT ![i] = @ + 1]
             /\ IF r.raised
                THEN \* nothing catches it: process_all_provinces ends
                     /\ pc' = "crashed"
                     /\ waited' = 0
                     /\ UNCHANGED <<master_df, todo>>
                ELSE /\ master_df' = [master_df EXCEPT ![i].PostalCode = r.ret]
                     /\ todo' = Tail(todo)
                     /\ waited' = reverse_delay
                     /\ UNCHANGED pc
    /\ UNCHANGED <<cache, ci, df, idx, attempt, api_query, lat, lng, postal,
                   dfs, returned, tries, outcomes, n_read, master0, aborted,
                   lost, entered, fixed>>

\* an iteration of the reverse pass on a row without coordinates
ReverseSkip ==
    /\ pc = "reverse"
    /\ todo # <<>>
    /\ ~wants_reverse(master_df[Head(todo)])
    /\ todo' = Tail(todo)
    /\ UNCHANGED <<cache, pc, ci, df, idx, attempt, api_query, lat, lng, postal,
                   dfs, master_df, hist, fixed>>

\* return master_df
Return ==
    /\ pc = "reverse"
    /\ todo = <<>>
    /\ pc' = "done"
    /\ UNCHANGED <<cache, ci, df, idx, attempt, api_query, lat, lng, postal,
                   dfs, master_df, todo, hist, fixed>>

Next ==
    \/ ReadFails
    \/ ReadProvince
    \/ BeginRow
    \/ ForwardAttempt
    \/ FinishRow
    \/ RaiseNoData
    \/ Combine
    \/ ReverseLookup
    \/ ReverseSkip
    \/ Return

Spec == Init /\ [][Next]_vars

\* a list of configs whose second entry has a province code that
\* Config.PROVINCE_FULL_NAMES does not hold
unknown_region_configs ==
    << province_configs[1],
       [file_name |-> "Yukon.csv", province_code |-> "ZZ", FullAddress |-> TRUE],
       province_configs[3] >>

InitUnknownRegion == Start(unknown_region_configs, "config") /\ cleaner = NotCleaning

SpecUnknownRegion == InitUnknownRegion /\ [][Next]_vars

(***************************************************************************)
(* DataCleaner.clean_bc_address called on its own                          *)
(***************************************************************************)
\* the longest address given to the function
MaxAddrLen == 6

\* the characters of the addresses: a letter, a digit, the comma, a blank
AddrAlphabet == {"A", "1", ",", " "}

CleanerInputs ==
    [ run : {"call"},
      full_address : SeqsUpTo(AddrAlphabet, MaxAddrLen) \cup {NaN},
      city : { <<"a">> },
      province : { <<"a">>, <<"A", " ", "1">> },
      out : { <<>> } ]

InitClean == Start(<<>>, "clean") /\ cleaner \in CleanerInputs

\* the call of clean_bc_address and its return
CleanAddress ==
    /\ pc = "clean"
    /\ cleaner.run = "call"
    /\ cleaner' = [cleaner EXCEPT
                      !.run = "done",
                      !.out = clean_bc_address(cleaner.full_address, cleaner.city,
                                               cleaner.province)]
    /\ UNCHANGED <<prog, hist, configs>>

NextClean == CleanAddress

SpecClean == InitClean /\ [][NextClean]_vars

(***************************************************************************)
(* Properties                                                              *)
(***************************************************************************)
\* the rows the forward pass has finished, a prefix of Records
Finished == 1..Len(outcomes)

\* a forward call was made with a query an earlier forward call was made with
Repeated == last.op = "forward" /\ last.prev # <<>>

\* C1 as stated: for every non-empty query, a second forward call with the
\* same query returns what the call before it returned and sends no request.
C1_SecondCallIsCacheHit ==
    (Repeated /\ truthy(last.query)) =>
        (last.ret = last.prev /\ ~last.net)

\* C1 amended: when the call before it with the same non-empty query returned
\* coordinates, a forward call returns the same triple and sends no request.
C1_SecondCallAfterSuccessIsCacheHit ==
    (Repeated /\ truthy(last.query) /\ last.prev # Unresolved) =>
        (last.ret = last.prev /\ ~last.net)

C1_Witness ==
    /\ Repeated
    /\ last.prev # Unresolved
    /\ last.ret = last.prev
    /\ ~last.net

\* C2: a forward lookup that ends Unresolved after a request leaves no cache
\* entry for its query, and the next forward call with that query sends a
\* fresh request.
C2_FailureNotCached ==
    /\ (last.op = "forward" /\ last.net /\ last.ret = Unresolved)
          => last.query \notin DOMAIN cache
    /\ (Repeated /\ last.prev = Unresolved) => last.net

C2_Witness ==
    /\ Repeated
    /\ last.prev = Unresolved
    /\ last.net
    /\ last.ret # Unresolved

\* C3: a step keeps every cache entry as it is, and changes the cache only
\* by adding the entry of a forward lookup that has just succeeded.
C3_CacheStep ==
    /\ \A a \in DOMAIN cache : a \in DOMAIN cache' /\ cache'[a] = cache[a]
    /\ cache' # cache =>
          /\ pc = "attempt"
          /\ last'.op = "forward" /\ last'.net /\ last'.ret # Unresolved
          /\ DOMAIN cache' = DOMAIN cache \cup {last'.query}
          /\ cache'[last'.query] = last'.ret

C3_CacheOnlyGrowsOnSuccess == [][C3_CacheStep]_vars

C3_Witness ==
    /\ pc = "done"
    /\ Cardinality(DOMAIN cache) = 2
    /\ last.op = "reverse"

\* C4: the retry loop of a record calls the forward lookup at least once and
\* at most max_retries times; every call before the last one came back
\* without coordinates, and the loop ends on a call with coordinates or after
\* exactly max_retries calls.
C4_AttemptsBounded ==
    /\ pc = "attempt" =>
          /\ Len(tries) < max_retries
          /\ attempt = Len(tries) + 1
          /\ \A j \in 1..Len(tries) : ~tries[j]
    /\ pc = "write" =>
          /\ Len(tries) >= 1
          /\ Len(tries) <= max_retries
          /\ \A j \in 1..(Len(tries) - 1) : ~tries[j]
          /\ tries[Len(tries)] \/ Len(tries) = max_retries

C4_Witness ==
    /\ pc = "write"
    /\ Len(tries) = max_retries
    /\ ~tries[max_retries]

\* C5: no row that was read is dropped; a row whose attempts all failed is
\* kept with Latitude and Longitude None, and at the end every row read is in
\* the output, Resolved or Exhausted.
C5_ExhaustedKept ==
    /\ Len(Records) = n_read
    /\ Len(outcomes) <= Len(Records)
    /\ \A i \in Finished :
          i <= Len(Records) /\ outcomes[i] = "Exhausted" =>
              (isna(Records[i].Latitude) /\ isna(Records[i].Longitude))
    /\ pc = "done" => (Len(master_df) = n_read /\ Len(outcomes) = n_read)

C5_Witness ==
    /\ pc = "done"
    /\ Len(master_df) = 2
    /\ outcomes = <<"Exhausted", "Resolved">>
    /\ isna(master_df[1].Latitude) /\ isna(master_df[1].Longitude)

\* C6: when a lookup call is made, at least API_DELAY has been slept since
\* the call before it, whatever that call returned.
C6_DelayBetweenQueries == gap = -1 \/ gap >= API_DELAY

C6_Witness ==
    /\ gap = API_DELAY
    /\ last.op = "reverse"
    /\ Len(master_df) = 2

\* a row of the combined frame with both coordinates and no postal code
needs_postal(row) ==
    /\ row.Latitude \notin {None, NaN}
    /\ row.Longitude \notin {None, NaN}
    /\ row.PostalCode \in {None, NaN}

\* C7: the reverse pass makes one reverse call for each row that had both
\* coordinates and no postal code when the pass began, and none for any
\* other row.
C7_OneReverseCallPerMissingPostal ==
    pc \in {"reverse", "done"} =>
       /\ Len(rev_calls) = Len(master0)
       /\ \A i \in 1..Len(master0) :
             /\ rev_calls[i] <= (IF needs_postal(master0[i]) THEN 1 ELSE 0)
             /\ (pc = "done" /\ needs_postal(master0[i])) => rev_calls[i] = 1

C7_Witness ==
    /\ pc = "done"
    /\ \E i, j \in 1..Len(master0) :
          /\ rev_calls[i] = 1
          /\ rev_calls[j] = 0 /\ master0[j].PostalCode = PostalB

\* a postal code is present
present(v) == v \notin {None, NaN, <<>>}

\* C8: a step leaves the postal code of every record that has one as it is.
C8_PostalStep ==
    \A i \in 1..Len(Records) :
        present(Records[i].PostalCode) =>
            (i <= Len(Records') /\ Records'[i].PostalCode = Records[i].PostalCode)

C8_PresentPostalCodeKept == [][C8_PostalStep]_vars

C8_Witness ==
    /\ pc = "done"
    /\ \E i \in 1..Len(master_df) :
          /\ master_df[i].PostalCode = PostalB
          /\ master_df[i].Latitude = <<"49.2">>
          /\ rev_calls[i] = 0

\* C9: every finished record and every cache entry has both coordinates or
\* neither.
C9_CoordinatesPaired ==
    /\ \A i \in Finished :
          i <= Len(Records) =>
              (isna(Records[i].Latitude) <=> isna(Records[i].Longitude))
    /\ \A a \in DOMAIN cache : isna(cache[a][1]) <=> isna(cache[a][2])

C9_Witness ==
    /\ pc = "done"
    /\ DOMAIN cache # {}
    /\ \E i, j \in 1..Len(master_df) :
          /\ notna(master_df[i].Latitude) /\ notna(master_df[i].Longitude)
          /\ isna(master_df[j].Latitude) /\ isna(master_df[j].Longitude)

\* C10: a lookup whose request or parsing raised returns the all-None result
\* without raising, and no exception ends a batch or the run.
C10_FailuresContained ==
    /\ aborted = {}
    /\ pc # "crashed"
    /\ (last # NoCall /\ last.net /\ last.answer = "exception") =>
          /\ ~last.raised
          /\ last.op = "forward" => last.ret = Unresolved
          /\ last.op = "reverse" => last.ret = <<None>>

C10_Witness ==
    /\ pc = "done"
    /\ last.op = "reverse"
    /\ last.answer = "exception"
    /\ Len(master_df) = n_read
    /\ \E i \in Finished : outcomes[i] = "Exhausted"

(***************************************************************************)
(* Province codes outside Config.PROVINCE_FULL_NAMES                       *)
(***************************************************************************)
unknown_region(c) == ~known_province(configs[c].province_code)

\* the records of the combined frame that the config c contributed
contributed(c) == {i \in 1..Len(master_df) : master_df[i].origin[1] = c}

\* C11: a config whose province code is not in the province table fails for
\* that config alone: the error does not end the run, only configs gone
\* through with an unknown code have failed, no record anywhere comes from a
\* config with an unknown code, and every row read for another config is
\* held once, from the reading on into the combined frame.
C11_UnknownRegionFailsAlone ==
    /\ pc # "crashed"
    /\ aborted \subseteq {c \in 1..(ci - 1) : unknown_region(c)}
    /\ \A i \in 1..Len(Records) : ~unknown_region(Records[i].origin[1])
    /\ Cardinality({Records[i].origin : i \in 1..Len(Records)}) = Len(Records)
    /\ Len(Records) = n_read - lost

\* a run that ended after a config with an unknown code had rows read for
\* it, and a config after it contributed a record
C11_Witness ==
    /\ pc = "done"
    /\ lost > 0
    /\ \E c \in aborted :
          /\ unknown_region(c)
          /\ \E d \in (c + 1)..Len(configs) : contributed(d) # {}

(***************************************************************************)
(* Order of processing                                                     *)
(***************************************************************************)
\* the place o of the input comes before the place p: an earlier config, or
\* an earlier row of the same config
origin_before(o, p) == o[1] < p[1] \/ (o[1] = p[1] /\ o[2] < p[2])

\* the position in Records of the record the forward pass last looked up
looked_up ==
    Len(outcomes) + (IF pc \in {"attempt", "write"} /\ tries # <<>> THEN 1 ELSE 0)

C12_Order ==
    /\ \A i, j \in 1..Len(Records) :
          i < j => origin_before(Records[i].origin, Records[j].origin)
    /\ last.op = "forward" =>
          /\ looked_up \in 1..Len(Records)
          /\ last.origin = Records[looked_up].origin

C12_CallStep ==
    (last.op = "forward" /\ last'.op = "forward" /\ last'.origin # last.origin) =>
       /\ origin_before(last.origin, last'.origin)
       /\ Len(outcomes) = looked_up'- 1
       /\ last.origin = Records[Len(outcomes)].origin

\* C12: records are processed in the order of the input. The records held
\* at any time, and so the combined frame, are in the order of the configs
\* and within a config in the order of the rows read; a forward lookup is
\* always for the first record not yet finished; and a lookup for another
\* record than the lookup before it is for a later one, made when the
\* earlier record is finished.
C12_InputOrderKept == []C12_Order /\ [][C12_CallStep]_vars

\* a run ended with two records from two configs, the first of which took
\* every attempt the retry loop allows
C12_Witness ==
    /\ pc = "done"
    /\ Len(master_df) >= 2
    /\ master_df[1].origin[1] # master_df[2].origin[1]
    /\ outcomes[1] = "Exhausted"
    /\ last.op = "forward"

(***************************************************************************)
(* The reverse pass comes after the forward pass                           *)
(***************************************************************************)
C13_ReverseCallState ==
    last.op = "reverse" =>
       /\ pc \in {"reverse", "done", "crashed"}
       /\ ci > Len(configs)
       /\ df = <<>>
       /\ Len(outcomes) = n_read
       /\ Len(master_df) = n_read

C13_NoForwardAfterReverse == last.op = "reverse" => last'.op = "reverse"

\* C13: a reverse lookup is made only when the loop has gone through every
\* config and every record read has ended its forward pass, Resolved or
\* Exhausted, and is in the combined frame; and once a reverse lookup was
\* made no forward lookup follows.
C13_ReverseAfterForward == []C13_ReverseCallState /\ [][C13_NoForwardAfterReverse]_vars

\* a reverse lookup was made in a run of two records, one of which used up
\* its attempts
C13_Witness ==
    /\ last.op = "reverse"
    /\ Len(outcomes) = 2
    /\ \E i \in Finished : outcomes[i] = "Exhausted"
    /\ \E i \in Finished : outcomes[i] = "Resolved"

(***************************************************************************)
(* Coordinates the source file carried                                     *)
(***************************************************************************)
\* the row loop has ended an iteration and not begun the next
row_written == outcomes # <<>> /\ pc \notin {"attempt", "write"}

\* the current row came with both coordinates in its source
entered_with_coordinates == notna(entered[1]) /\ notna(entered[2])

\* C15: the row that has just ended its iteration holds in Latitude and
\* Longitude what the last lookup returned, whatever it held on entry; so a
\* row that came with coordinates and whose attempts were all Unresolved
\* holds null coordinates.
C15_LookupOutcomeOverwrites ==
    row_written =>
       LET row == Records[Len(outcomes)]
       IN  /\ row.Latitude = lat
           /\ row.Longitude = lng
           /\ (entered_with_coordinates /\ outcomes[Len(outcomes)] = "Exhausted") =>
                 (row.Latitude = None /\ row.Longitude = None)

\* a row read with both coordinates used up its attempts and was written
\* without them
C15_Witness ==
    /\ row_written
    /\ entered_with_coordinates
    /\ outcomes[Len(outcomes)] = "Exhausted"
    /\ Len(tries) = max_retries
    /\ Records[Len(outcomes)].Latitude = None
    /\ Records[Len(outcomes)].Longitude = None

(***************************************************************************)
(* Addresses without a postal code                                         *)
(***************************************************************************)
\* the characters of a from position i to position j are all whitespace
blank(a, i, j) == \A k \in i..j : a[k] \in Whitespace

\* letter digit letter, then digit letter digit, at position i of a
ldl_at(a, i) ==
    /\ i + 2 <= Len(a)
    /\ a[i] \in Letters /\ a[i + 1] \in Digits /\ a[i + 2] \in Letters
dld_at(a, i) ==
    /\ i + 2 <= Len(a)
    /\ a[i] \in Digits /\ a[i + 1] \in Letters /\ a[i + 2] \in Digits

\* the address holds a postal code: A1A1A1 or A1A 1A1
has_postal_pattern(a) ==
    \E i \in 1..Len(a) :
       /\ ldl_at(a, i)
       /\ \/ dld_at(a, i + 3)
          \/ (i + 3 <= Len(a) /\ a[i + 3] \in Whitespace /\ dld_at(a, i + 4))

\* the text t stands at position i of a, in whatever case
text_at(a, i, t) ==
    /\ i + Len(t) - 1 <= Len(a)
    /\ \A k \in 1..Len(t) : lower(a[i + k - 1]) = lower(t[k])

\* the address holds ", <city>, <province>": a comma, the city, at most one
\* comma, the province, with any whitespace between them
has_city_province(a, city, province) ==
    \E i \in 1..Len(a) : \E c \in i + 1..Len(a) : \E p \in c + Len(city)..Len(a) :
       /\ a[i] = ","
       /\ blank(a, i + 1, c - 1)
       /\ text_at(a, c, city)
       /\ text_at(a, p, province)
       /\ \/ blank(a, c + Len(city), p - 1)
          \/ \E m \in c + Len(city)..p - 1 :
                a[m] = "," /\ blank(a, c + Len(city), m - 1) /\ blank(a, m + 1, p - 1)

\* the address without the whitespace around it
trimmed(a) ==
    CHOOSE t \in {SubSeq(a, i, j) : i \in 1..Len(a) + 1, j \in 0..Len(a)} :
       \E i \in 1..Len(a) + 1 : \E j \in 0..Len(a) :
          /\ t = SubSeq(a, i, j)
          /\ blank(a, 1, i - 1) /\ blank(a, j + 1, Len(a))
          /\ t = <<>> \/ (t[1] \notin Whitespace /\ t[Len(t)] \notin Whitespace)

\* the function has returned for an address that is a string without a
\* postal code
cleaned_without_postal ==
    /\ cleaner.run = "done"
    /\ isstr(cleaner.full_address)
    /\ ~has_postal_pattern(cleaner.full_address)

====
